---- MODULE Spec2Model ----
(***************************************************************************)
(* A model of the core of the cbs build orchestrator:                      *)
(*   src/src/core.rs     Task, TaskStatus, BuildResult, Config             *)
(*   src/src/context.rs  Context (narrowing, per-target log, cache paths)  *)
(*   src/src/cargo.rs    CargoResolver                                     *)
(*                                                                         *)
(* Every component has its own specification (SpecStatus, SpecTask, ...).  *)
(* The variables of the other components are parked at a fixed value and   *)
(* left unchanged by it.                                                   *)
(*                                                                         *)
(* Option<T> is a sequence of length at most one: None is <<>> and Some(x) *)
(* is <<x>>.  A String is a sequence of one-character strings whenever the *)
(* code looks inside it (to_dir, strip_prefix, split), an opaque TLA+      *)
(* string otherwise.                                                       *)
(***************************************************************************)
EXTENDS Integers, Sequences, FiniteSets, TLC

VARIABLES
    sTask, sOut,            \* SpecStatus: a Task and the value status() returned
    task, prev,             \* SpecTask: the Task a scheduler drives through its life,
                            \* and the Task as it was before the last step
    mResults, mOut,         \* SpecMerged: a sequence of BuildResults and what merged returned
    dConfig, dOut,          \* SpecDeps: a Config and what dependencies() returned
    \* SpecLog: Contexts that share one log store, one per calling thread
    logs,                   \* Context.logs: target name -> its Vec of messages
    readers, writer,        \* the RwLock around the map: holders of read guards, holder of the write guard
    mutex,                  \* the Mutex around each target's Vec: its holder
    ctxTarget,              \* Context.target of each caller's Context
    lpc,                    \* where each caller is inside log()
    sent, returned,         \* per caller: log() calls invoked, log() calls returned
    printed,                \* what println! wrote
    writerFirst,            \* whether the platform's RwLock holds readers back while a writer waits
    \* SpecCtx: a Context narrowed by with_target / with_task
    ctx,                    \* the Context
    dirsOut,                \* what working_directory() and scratch_dir() returned for it
    \* SpecResolve: CargoResolver::resolve called again and again
    files,                  \* the working directories under the cache root
    calls,                  \* how many resolve invocations there were
    last,                   \* the last invocation: what it found, did and returned
    firstOk,                \* per target: the Config of its first successful resolve
    pending,                \* per target: the action whose failure ended a resolve
                            \* and that no resolve has completed since
    \* SpecTree: a Context and the Context a narrowing call on it returned
    parent,                 \* the Context with_target / with_task is called on
    child,                  \* the Context the last call returned
    kept,                   \* the parent as it was when the last call was made
    treeOut,                \* working_directory() and scratch_dir() of parent and child
    \* SpecParse: parse_cargo_toml on a manifest
    pIn,                    \* the Context, manifest, locked features and HashSet seed
    pOut,                   \* what parse_cargo_toml returned
    \* SpecHash: Config::calculate_hash, one open or read at a time
    hCfg,                   \* the Config (self)
    hArgs,                  \* context_hash and deps_hash
    hPc,                    \* where calculate_hash is
    hIdx,                   \* the position of src in self.sources
    hPos,                   \* how many bytes of src have been read
    hHasher,                \* the bytes the digest has been fed
    hErrs,                  \* how many reads have failed in this call
    hOut,                   \* what calculate_hash returned
    hFirst,                 \* the call before this one: its inputs and its result
    \* SpecBuild: FilesystemBuilder::build on a Task
    bTask,                  \* the Task
    bOut                    \* what build did: the BuildResult, or a panic

statusVars == <<sTask, sOut>>
taskVars == <<task, prev>>
mergedVars == <<mResults, mOut>>
depsVars == <<dConfig, dOut>>
logVars == <<logs, readers, writer, mutex, ctxTarget, lpc, sent, returned, printed, writerFirst>>
ctxVars == <<ctx, dirsOut>>
resolveVars == <<files, calls, last, firstOk, pending>>
treeVars == <<parent, child, kept, treeOut>>
parseVars == <<pIn, pOut>>
hashVars == <<hCfg, hArgs, hPc, hIdx, hPos, hHasher, hErrs, hOut, hFirst>>
buildVars == <<bTask, bOut>>
vars == <<statusVars, taskVars, mergedVars, depsVars, logVars, ctxVars, resolveVars,
          treeVars, parseVars, hashVars, buildVars>>

\* What the actions of one component leave unchanged.
statusOthers == <<taskVars, mergedVars, depsVars, logVars, ctxVars, resolveVars,
    treeVars, parseVars, hashVars, buildVars>>
taskOthers == <<statusVars, mergedVars, depsVars, logVars, ctxVars, resolveVars,
    treeVars, parseVars, hashVars, buildVars>>
mergedOthers == <<statusVars, taskVars, depsVars, logVars, ctxVars, resolveVars,
    treeVars, parseVars, hashVars, buildVars>>
depsOthers == <<statusVars, taskVars, mergedVars, logVars, ctxVars, resolveVars,
    treeVars, parseVars, hashVars, buildVars>>
logOthers == <<statusVars, taskVars, mergedVars, depsVars, ctxVars, resolveVars,
    treeVars, parseVars, hashVars, buildVars>>
ctxOthers == <<statusVars, taskVars, mergedVars, depsVars, logVars, resolveVars,
    treeVars, parseVars, hashVars, buildVars>>
resolveOthers == <<statusVars, taskVars, mergedVars, depsVars, logVars, ctxVars,
    treeVars, parseVars, hashVars, buildVars>>
treeOthers == <<statusVars, taskVars, mergedVars, depsVars, logVars, ctxVars, resolveVars,
    parseVars, hashVars, buildVars>>
parseOthers == <<statusVars, taskVars, mergedVars, depsVars, logVars, ctxVars, resolveVars,
    treeVars, hashVars, buildVars>>
hashOthers == <<statusVars, taskVars, mergedVars, depsVars, logVars, ctxVars, resolveVars,
    treeVars, parseVars, buildVars>>
buildOthers == <<statusVars, taskVars, mergedVars, depsVars, logVars, ctxVars, resolveVars,
    treeVars, parseVars, hashVars>>

None == <<>>
Some(x) == <<x>>
IsSome(o) == Len(o) = 1
IsNone(o) == Len(o) = 0
Unwrap(o) == o[1]

\* HashMap<K, V>: a function on the keys present.
EmptyMap == [k \in {} |-> <<>>]
\* HashMap::insert
MapInsert(m, k, v) == [x \in DOMAIN m \cup {k} |-> IF x = k THEN v ELSE m[x]]

\* All sequences over S of length at most n.
SeqsUpTo(S, n) == UNION {[1..k -> S] : k \in 0..n}

(***************************************************************************)
(* core.rs: Task and TaskStatus                                            *)
(***************************************************************************)

\* Bounds of the Task model.
MaxDeps == 2
MaxReady == 3

TaskIds == {1, 2}

Resolving == "Resolving"
Blocked == "Blocked"
Building == "Building"
Done == "Done"
TaskStatus == {Resolving, Blocked, Building, Done}

\* The Configs a Task of the model is resolved to (with and without location).
TaskConfigs == {"cfg_with_location", "cfg_without_location"}
\* The BuildResults a Task of the model ends with.
TaskResults == {"Success", "Failure"}

\* Task::new
TaskNew(id, target) ==
    [id |-> id, dependencies |-> <<>>, target |-> target, config |-> None,
     result |-> None, available |-> TRUE, dependencies_ready |-> 0]

\* A mutation of Task::status: the results of the readiness test are swapped.
status_swapped(t) ==
    IF IsSome(t.result) THEN Done
    ELSE IF IsNone(t.config) THEN Resolving
    ELSE IF t.dependencies_ready < Len(t.dependencies) THEN Building
    ELSE IF IsNone(t.result) THEN Blocked
    ELSE Done

\* A mutation of Task::status: the config test comes before the result test.
status_config_first(t) ==
    IF IsNone(t.config) THEN Resolving
    ELSE IF IsSome(t.result) THEN Done
    ELSE IF t.dependencies_ready < Len(t.dependencies) THEN Blocked
    ELSE IF IsNone(t.result) THEN Building
    ELSE Done

\* A mutation of Task::status: the leading result test is lost, the result is
\* only looked at after the readiness test.
status_result_last(t) ==
    IF IsNone(t.config) /\ IsNone(t.result) THEN Resolving
    ELSE IF t.dependencies_ready < Len(t.dependencies) THEN Blocked
    ELSE IF IsNone(t.result) THEN Building
    ELSE Done

\* Task::status
status(t) ==
    IF IsSome(t.result) THEN Done
    ELSE IF IsNone(t.config) THEN Resolving
    ELSE IF t.dependencies_ready < Len(t.dependencies) THEN Blocked
    ELSE IF IsNone(t.result) THEN Building
    ELSE Done

\* Task::failure_stage
failure_stage(t) == IF IsNone(t.config) THEN Resolving ELSE Building

\* ------------------------------------------------------------------------
\* SpecStatus: status() applied to every combination of the fields it reads.

AnyTask ==
    {[id |-> 1, dependencies |-> d, target |-> "t", config |-> c, result |-> r,
      available |-> TRUE, dependencies_ready |-> n] :
        d \in SeqsUpTo(TaskIds, MaxDeps),
        c \in {None} \cup {Some(x) : x \in TaskConfigs},
        r \in {None} \cup {Some(x) : x \in TaskResults},
        n \in 0..MaxReady}

IdleTask == TaskNew(0, "idle")

StatusIdle == sTask = IdleTask /\ sOut = None
TaskIdle == task = IdleTask /\ prev = None
MergedIdle == mResults = <<>> /\ mOut = None
DepsIdle == dConfig = None /\ dOut = None
LogIdle ==
    /\ logs = EmptyMap /\ readers = {} /\ writer = None /\ mutex = EmptyMap
    /\ ctxTarget = EmptyMap /\ lpc = EmptyMap /\ sent = EmptyMap /\ returned = EmptyMap
    /\ printed = <<>> /\ writerFirst = FALSE
CtxIdle == ctx = None /\ dirsOut = None
ResolveIdle ==
    /\ files = EmptyMap /\ calls = 0 /\ last = None
    /\ firstOk = EmptyMap /\ pending = EmptyMap
TreeIdle == parent = None /\ child = None /\ kept = None /\ treeOut = None
ParseIdle == pIn = None /\ pOut = None
HashIdle ==
    /\ hCfg = None /\ hArgs = None /\ hPc = "idle" /\ hIdx = 0 /\ hPos = 0
    /\ hHasher = <<>> /\ hErrs = 0 /\ hOut = None /\ hFirst = None
BuildIdle == bTask = None /\ bOut = None
\* The components the first seven specifications leave idle.
RestIdle == TreeIdle /\ ParseIdle /\ HashIdle /\ BuildIdle
\* The components the later specifications leave idle.
CoreIdle ==
    StatusIdle /\ TaskIdle /\ MergedIdle /\ DepsIdle /\ LogIdle /\ CtxIdle /\ ResolveIdle

StatusInit == sTask \in AnyTask /\ sOut = None

CallStatus ==
    /\ sOut = None
    /\ sOut' = Some(status(sTask))
    /\ UNCHANGED <<sTask, statusOthers>>

InitStatus == StatusInit /\ TaskIdle /\ MergedIdle /\ DepsIdle /\ LogIdle /\ CtxIdle /\ ResolveIdle /\ RestIdle
NextStatus == CallStatus
SpecStatus == InitStatus /\ [][NextStatus]_vars

\* ------------------------------------------------------------------------
\* SpecTask: one Task from Task::new through its lifecycle.  The scheduler
\* that writes the fields is not part of core.rs; its steps are the ones
\* the Task lifecycle of the specification names, in any order.

\* Resolution stores the Config (set exactly once).
SetConfig(c) ==
    /\ IsNone(task.config)
    /\ task' = [task EXCEPT !.config = Some(c)]
    /\ prev' = Some(task)
    /\ UNCHANGED taskOthers

\* The scheduler records the id of a dependency's task.
RecordDependency(id) ==
    /\ Len(task.dependencies) < MaxDeps
    /\ task' = [task EXCEPT !.dependencies = Append(@, id)]
    /\ prev' = Some(task)
    /\ UNCHANGED taskOthers

\* A dependency completed: one more of the recorded dependencies is ready.
DependencyDone ==
    /\ task.dependencies_ready < Len(task.dependencies)
    /\ task' = [task EXCEPT !.dependencies_ready = @ + 1]
    /\ prev' = Some(task)
    /\ UNCHANGED taskOthers

\* A result is stored (set exactly once): the outcome of the build of a
\* Task that has its config and all its recorded dependencies ready, or
\* the failure of whatever stage the Task was in (failure_stage tells a
\* failed resolution, with no config, from a failed build).
SetResult(r) ==
    /\ IsNone(task.result)
    /\ r = "Success" =>
          /\ IsSome(task.config)
          /\ task.dependencies_ready >= Len(task.dependencies)
    /\ task' = [task EXCEPT !.result = Some(r)]
    /\ prev' = Some(task)
    /\ UNCHANGED taskOthers

InitTask ==
    /\ task \in {TaskNew(id, "t") : id \in TaskIds}
    /\ prev = None
    /\ StatusIdle /\ MergedIdle /\ DepsIdle /\ LogIdle /\ CtxIdle /\ ResolveIdle /\ RestIdle

Resolved == \E c \in TaskConfigs : SetConfig(c)
Recorded == \E id \in TaskIds : RecordDependency(id)
Finished == \E r \in TaskResults : SetResult(r)

NextTask == Resolved \/ Recorded \/ DependencyDone \/ Finished

SpecTask == InitTask /\ [][NextTask]_vars

\* Position of a status in the order Resolving, Blocked, Building, Done.
Rank(s) == CASE s = Resolving -> 0 [] s = Blocked -> 1 [] s = Building -> 2 [] s = Done -> 3

\* The status the priority list of the specification gives a Task.
PriorityStatus(t) ==
    CASE IsSome(t.result) -> Done
      [] IsNone(t.result) /\ IsNone(t.config) -> Resolving
      [] IsNone(t.result) /\ IsSome(t.config)
            /\ t.dependencies_ready < Len(t.dependencies) -> Blocked
      [] IsNone(t.result) /\ IsSome(t.config)
            /\ ~(t.dependencies_ready < Len(t.dependencies)) -> Building

\* C1: for every combination of config, result, dependencies_ready and
\* dependencies, status() is Done when a result is present, otherwise
\* Resolving when there is no config, otherwise Blocked when
\* dependencies_ready < dependencies.len(), otherwise Building.
C1_StatusPriority ==
    IsSome(sOut) =>
        /\ Unwrap(sOut) = PriorityStatus(sTask)
        /\ IsSome(sTask.result) => Unwrap(sOut) = Done

\* C1 witness: status() returned Done for a Task that has a result, no config
\* and dependencies that are not all ready.
C1_Witness ==
    /\ sOut = Some(Done)
    /\ IsNone(sTask.config)
    /\ sTask.dependencies_ready < Len(sTask.dependencies)

\* C2 as stated: status() is Resolving if and only if config is None.
C2_ResolvingIffNoConfig ==
    (status(task) = Resolving) <=> IsNone(task.config)

\* C2 as amended: status() is Resolving if and only if config is None and
\* result is None (a Task that has a result is Done, with or without config).
C2_ResolvingIffNoConfigNoResult ==
    (status(task) = Resolving) <=> (IsNone(task.config) /\ IsNone(task.result))

\* C2 witness: a Task whose resolution failed: a result and no config.
C2_Witness ==
    /\ IsNone(task.config)
    /\ IsSome(task.result)
    /\ status(task) = Done

\* C3 as stated: no lifecycle step moves status() to an earlier state in
\* the order Resolving, Blocked, Building, Done.
C3_NeverBackward ==
    IsSome(prev) => Rank(status(task)) >= Rank(status(Unwrap(prev)))

\* C3 as amended: a lifecycle step moves status() to an earlier state only
\* when it records a further dependency of a Task that was Building, which
\* is Blocked again; status() never returns to Resolving once left, and
\* Done stays Done.
C3_BackwardOnlyByNewDependency ==
    IsSome(prev) =>
        LET before == status(Unwrap(prev))
            after == status(task)
        IN  /\ \/ Rank(after) >= Rank(before)
               \/ /\ before = Building
                  /\ after = Blocked
                  /\ Len(task.dependencies) = Len(Unwrap(prev).dependencies) + 1
            /\ before = Done => after = Done
            /\ before # Resolving => after # Resolving

\* C3 witness: a step was taken on a Task that was Done (a dependency was
\* recorded after the result) and the Task is still Done.
C3_Witness ==
    /\ IsSome(prev)
    /\ status(Unwrap(prev)) = Done
    /\ status(task) = Done
    /\ Len(task.dependencies) > Len(Unwrap(prev).dependencies)
    /\ task.dependencies_ready < Len(task.dependencies)

(***************************************************************************)
(* core.rs: BuildResult::merged                                            *)
(***************************************************************************)

\* Bounds of the BuildResult model.
MaxResults == 3
MaxOutputs == 1

OutputPaths == {"a.o", "b.o"}
FailureMessages == {"e1", "e2"}

\* BuildOutputKind::TransitiveProducts
TransitiveProducts == 0
ExtrasMaps == {EmptyMap, [k \in {TransitiveProducts} |-> <<"p">>]}

\* BuildResult::Success(BuildOutput { outputs, extras })
Success(outputs, extras) == [tag |-> "Success", outputs |-> outputs, extras |-> extras]
\* BuildResult::Failure(message)
Failure(message) == [tag |-> "Failure", message |-> message]

BuildResults ==
    {Success(o, e) : o \in SeqsUpTo(OutputPaths, MaxOutputs), e \in ExtrasMaps}
        \cup {Failure(m) : m \in FailureMessages}

\* BuildResult::noop
noop == Success(<<>>, EmptyMap)

\* A mutation of BuildResult::merged: a Failure does not end the loop, the
\* last Failure seen is returned after it.
RECURSIVE merged_last_loop(_, _, _, _)
merged_last_loop(results, i, outs, failed) ==
    IF i > Len(results)
    THEN IF IsSome(failed) THEN Unwrap(failed) ELSE Success(outs, EmptyMap)
    ELSE IF results[i].tag = "Success"
         THEN merged_last_loop(results, i + 1, outs \o results[i].outputs, failed)
         ELSE merged_last_loop(results, i + 1, outs, Some(results[i]))

merged_last_failure(results) == merged_last_loop(results, 1, <<>>, None)

\* The loop of BuildResult::merged from its i-th result on, outs collected.
RECURSIVE merged_loop(_, _, _)
merged_loop(results, i, outs) ==
    IF i > Len(results)
    THEN Success(outs, EmptyMap)
    ELSE IF results[i].tag = "Success"
         THEN merged_loop(results, i + 1, outs \o results[i].outputs)
         ELSE results[i]

\* BuildResult::merged
merged(results) == merged_loop(results, 1, <<>>)

MergedInit == mResults \in SeqsUpTo(BuildResults, MaxResults) /\ mOut = None

CallMerged ==
    /\ mOut = None
    /\ mOut' = Some(merged(mResults))
    /\ UNCHANGED <<mResults, mergedOthers>>

InitMerged == MergedInit /\ StatusIdle /\ TaskIdle /\ DepsIdle /\ LogIdle /\ CtxIdle /\ ResolveIdle /\ RestIdle
NextMerged == CallMerged
SpecMerged == InitMerged /\ [][NextMerged]_vars

FailureIndexes(results) == {i \in 1..Len(results) : results[i].tag = "Failure"}
FirstOf(S) == CHOOSE i \in S : \A j \in S : i <= j

\* Number of outputs of the results before the i-th.
RECURSIVE OutputsBefore(_, _)
OutputsBefore(results, i) ==
    IF i <= 1 THEN 0
    ELSE OutputsBefore(results, i - 1) + Len(results[i - 1].outputs)

\* C4: merged returns the first Failure of the sequence verbatim if there
\* is one; otherwise a Success whose outputs are the inputs' outputs
\* concatenated in input order and whose extras map is empty (the empty
\* sequence merges to a Success with no outputs).
C4_MergedFirstFailureOrConcat ==
    IsSome(mOut) =>
        LET out == Unwrap(mOut)
            n == Len(mResults)
        IN  IF FailureIndexes(mResults) # {}
            THEN out = mResults[FirstOf(FailureIndexes(mResults))]
            ELSE /\ out.tag = "Success"
                 /\ DOMAIN out.extras = {}
                 /\ Len(out.outputs) = OutputsBefore(mResults, n + 1)
                 /\ \A i \in 1..n : \A j \in 1..Len(mResults[i].outputs) :
                        out.outputs[OutputsBefore(mResults, i) + j] = mResults[i].outputs[j]
                 /\ n = 0 => out.outputs = <<>>

\* C4 witness: merged returned for two or more Successes that all have
\* outputs and of which one has extras.
C4_Witness ==
    /\ IsSome(mOut)
    /\ Len(mResults) >= 2
    /\ FailureIndexes(mResults) = {}
    /\ \A i \in 1..Len(mResults) : Len(mResults[i].outputs) > 0
    /\ \E i \in 1..Len(mResults) : DOMAIN mResults[i].extras # {}
    /\ mResults[1].outputs # mResults[2].outputs

(***************************************************************************)
(* core.rs: Config::dependencies                                           *)
(***************************************************************************)

\* Bound of the Config model: the length of a dependency list.
MaxNames == 2

TargetNames == {"//x", "//y"}

\* struct Config, with the fields dependencies() does not read fixed.
MkConfig(deps, plugin, build_deps) ==
    [dependencies |-> deps, build_plugin |-> plugin, location |-> None,
     sources |-> <<>>, build_dependencies |-> build_deps, kind |-> "",
     extras |-> EmptyMap, hash |-> 0]

AnyConfig ==
    {MkConfig(d, p, b) : d \in SeqsUpTo(TargetNames, MaxNames), p \in TargetNames,
                         b \in SeqsUpTo(TargetNames, MaxNames)}

\* A mutation of Config::dependencies: build_plugin is pushed after the
\* build dependencies.
dependencies_plugin_last(c) ==
    LET out1 == c.dependencies
        out2 == out1 \o c.build_dependencies
        out3 == Append(out2, c.build_plugin)
    IN  out3

\* Config::dependencies
dependencies(c) ==
    LET out1 == c.dependencies
        out2 == Append(out1, c.build_plugin)
        out3 == out2 \o c.build_dependencies
    IN  out3

DepsInit == dConfig \in {Some(c) : c \in AnyConfig} /\ dOut = None

CallDependencies ==
    /\ dOut = None
    /\ dOut' = Some(dependencies(Unwrap(dConfig)))
    /\ UNCHANGED <<dConfig, depsOthers>>

InitDeps == DepsInit /\ StatusIdle /\ TaskIdle /\ MergedIdle /\ LogIdle /\ CtxIdle /\ ResolveIdle /\ RestIdle
NextDeps == CallDependencies
SpecDeps == InitDeps /\ [][NextDeps]_vars

\* C5: dependencies() is the runtime dependencies, then build_plugin, then
\* build_dependencies, each list in its own order with duplicates kept; its
\* length is dependencies.len() + 1 + build_dependencies.len().
C5_DependenciesOrder ==
    IsSome(dOut) =>
        LET c == Unwrap(dConfig)
            out == Unwrap(dOut)
            n == Len(c.dependencies)
            m == Len(c.build_dependencies)
        IN  /\ Len(out) = n + 1 + m
            /\ \A i \in 1..n : out[i] = c.dependencies[i]
            /\ out[n + 1] = c.build_plugin
            /\ \A i \in 1..m : out[n + 1 + i] = c.build_dependencies[i]

\* C5 witness: dependencies() returned for a Config whose build_plugin is
\* also a runtime dependency and whose two build dependencies differ from
\* it: a duplicate is kept, and the position of build_plugin matters.
C5_Witness ==
    /\ IsSome(dOut)
    /\ LET c == Unwrap(dConfig)
       IN  /\ Len(c.dependencies) = MaxNames
           /\ Len(c.build_dependencies) >= 1
           /\ \E i \in 1..Len(c.dependencies) : c.dependencies[i] = c.build_plugin
           /\ c.build_dependencies[1] # c.build_plugin
           /\ Len(Unwrap(dOut)) = Len(c.dependencies) + 1 + Len(c.build_dependencies)

(***************************************************************************)
(* core.rs: FilesystemBuilder::build                                       *)
(***************************************************************************)

\* The values of Config::location.
Locations == {"/usr/lib/libc.a", "out//gen", ""}

StrLocationRequired == "filesystem builder plugin requires a location set in the build config"

\* PathBuf::from(String): the PathBuf owns the bytes of the String, unchanged.
PathBufFrom(str) == str

\* What build does: it returns a BuildResult, or it panics.
BuildReturned(result) == [panicked |-> FALSE, result |-> result]
BuildPanicked == [panicked |-> TRUE]

\* FilesystemBuilder::build; context and deps are not read.
build(t) ==
    IF IsNone(t.config) THEN BuildPanicked
    ELSE IF IsNone(Unwrap(t.config).location)
    THEN BuildReturned(Failure(StrLocationRequired))
    ELSE BuildReturned(Success(<<PathBufFrom(Unwrap(Unwrap(t.config).location))>>, EmptyMap))

\* The Tasks build is called with: not resolved, or resolved to a Config
\* with or without a location.
BuildTasks ==
    {TaskNew(id, "t") : id \in TaskIds}
        \cup {[TaskNew(id, "t") EXCEPT !.config = Some([c EXCEPT !.location = l])] :
                id \in TaskIds, c \in AnyConfig,
                l \in {None} \cup {Some(x) : x \in Locations}}

InitBuild ==
    /\ bTask \in {Some(t) : t \in BuildTasks}
    /\ bOut = None
    /\ CoreIdle /\ TreeIdle /\ ParseIdle /\ HashIdle

CallBuild ==
    /\ bOut = None
    /\ bOut' = Some(build(Unwrap(bTask)))
    /\ UNCHANGED <<bTask, buildOthers>>

NextBuild == CallBuild

SpecBuild == InitBuild /\ [][NextBuild]_vars

\* C17: for every Task, FilesystemBuilder::build returns a BuildResult and
\* does not abort the process: Failure when the task's Config has no
\* location, otherwise Success whose only output is that location and
\* whose extras are empty.
C17_BuildNeverAborts ==
    IsSome(bOut) =>
        LET t == Unwrap(bTask)
            out == Unwrap(bOut)
        IN  /\ ~out.panicked
            /\ IsSome(t.config) /\ IsNone(Unwrap(t.config).location) =>
                  out.result.tag = "Failure"
            /\ IsSome(t.config) /\ IsSome(Unwrap(t.config).location) =>
                  out.result = Success(<<Unwrap(Unwrap(t.config).location)>>, EmptyMap)

(***************************************************************************)
(* context.rs: Context::log                                                *)
(***************************************************************************)

\* Bound of the log model: the log() calls each caller makes, in order.
MaxMessages == 2

\* The threads that log, each through its own clone of the Context; the
\* clones share the log store (Arc<RwLock<HashMap<..>>>).
Callers == {"A", "B"}
LogTargets == {"t1", "t2"}

\* The k-th message of caller c.
Message(c, k) == <<c, k>>

\* log() is invoked: with no target bound the message is printed and the
\* call returns; otherwise the caller goes for the read lock.
LogInvoke(c) ==
    /\ lpc[c] = "idle"
    /\ sent[c] < MaxMessages
    /\ sent' = [sent EXCEPT ![c] = @ + 1]
    /\ IF IsNone(ctxTarget[c])
       THEN /\ printed' = Append(printed, Message(c, sent[c] + 1))
            /\ returned' = [returned EXCEPT ![c] = @ + 1]
            /\ UNCHANGED lpc
       ELSE /\ lpc' = [lpc EXCEPT ![c] = "read"]
            /\ UNCHANGED <<printed, returned>>
    /\ UNCHANGED <<logs, readers, writer, mutex, ctxTarget, writerFirst, logOthers>>

\* self.logs.read(): granted when no write guard is held (and, where the
\* lock prefers writers, when no writer waits).
LogRead(c) ==
    /\ lpc[c] = "read"
    /\ IsNone(writer)
    /\ writerFirst => \A d \in Callers : lpc[d] # "write"
    /\ readers' = readers \cup {c}
    /\ lpc' = [lpc EXCEPT ![c] = "get"]
    /\ UNCHANGED <<logs, writer, mutex, ctxTarget, sent, returned, printed, writerFirst, logOthers>>

\* _logs.get(target): a hit goes on to the target's Mutex with the read
\* guard held; a miss leaves the block, which drops the read guard, and
\* goes for the write lock.
LogGet(c) ==
    /\ lpc[c] = "get"
    /\ IF Unwrap(ctxTarget[c]) \in DOMAIN logs
       THEN /\ lpc' = [lpc EXCEPT ![c] = "lock"]
            /\ UNCHANGED readers
       ELSE /\ lpc' = [lpc EXCEPT ![c] = "write"]
            /\ readers' = readers \ {c}
    /\ UNCHANGED <<logs, writer, mutex, ctxTarget, sent, returned, printed, writerFirst, logOthers>>

\* logs.lock(): granted when the target's Mutex is free.
LogLock(c) ==
    /\ lpc[c] = "lock"
    /\ IsNone(mutex[Unwrap(ctxTarget[c])])
    /\ mutex' = [mutex EXCEPT ![Unwrap(ctxTarget[c])] = Some(c)]
    /\ lpc' = [lpc EXCEPT ![c] = "push"]
    /\ UNCHANGED <<logs, readers, writer, ctxTarget, sent, returned, printed, writerFirst, logOthers>>

\* .push(message), then the Mutex guard and the read guard are dropped and
\* log() returns.
LogPush(c) ==
    /\ lpc[c] = "push"
    /\ logs' = [logs EXCEPT ![Unwrap(ctxTarget[c])] = Append(@, Message(c, sent[c]))]
    /\ mutex' = [mutex EXCEPT ![Unwrap(ctxTarget[c])] = None]
    /\ readers' = readers \ {c}
    /\ lpc' = [lpc EXCEPT ![c] = "idle"]
    /\ returned' = [returned EXCEPT ![c] = @ + 1]
    /\ UNCHANGED <<writer, ctxTarget, sent, printed, writerFirst, logOthers>>

\* self.logs.write(): granted when no guard of the RwLock is held.
LogWrite(c) ==
    /\ lpc[c] = "write"
    /\ IsNone(writer)
    /\ readers = {}
    /\ writer' = Some(c)
    /\ lpc' = [lpc EXCEPT ![c] = "insert"]
    /\ UNCHANGED <<logs, readers, mutex, ctxTarget, sent, returned, printed, writerFirst, logOthers>>

\* .insert(target, Mutex::new(vec![message])): HashMap::insert replaces the
\* value of a key that is present.  The write guard is dropped and log()
\* returns.
LogInsert(c) ==
    /\ lpc[c] = "insert"
    /\ logs' = MapInsert(logs, Unwrap(ctxTarget[c]), <<Message(c, sent[c])>>)
    /\ mutex' = MapInsert(mutex, Unwrap(ctxTarget[c]), None)
    /\ writer' = None
    /\ lpc' = [lpc EXCEPT ![c] = "idle"]
    /\ returned' = [returned EXCEPT ![c] = @ + 1]
    /\ UNCHANGED <<readers, ctxTarget, sent, printed, writerFirst, logOthers>>

\* Context::new makes the store empty; with_target / with_task clones share
\* it and bind a target (or none, for the root Context).
InitLog ==
    /\ logs = EmptyMap
    /\ readers = {}
    /\ writer = None
    /\ mutex = EmptyMap
    /\ ctxTarget \in [Callers -> {None} \cup {Some(t) : t \in LogTargets}]
    /\ lpc = [c \in Callers |-> "idle"]
    /\ sent = [c \in Callers |-> 0]
    /\ returned = [c \in Callers |-> 0]
    /\ printed = <<>>
    /\ writerFirst \in BOOLEAN
    /\ StatusIdle /\ TaskIdle /\ MergedIdle /\ DepsIdle /\ CtxIdle /\ ResolveIdle /\ RestIdle

Invoke == \E c \in Callers : LogInvoke(c)
ReadLock == \E c \in Callers : LogRead(c)
Get == \E c \in Callers : LogGet(c)
MutexLock == \E c \in Callers : LogLock(c)
Push == \E c \in Callers : LogPush(c)
WriteLock == \E c \in Callers : LogWrite(c)
Insert == \E c \in Callers : LogInsert(c)

NextLog == Invoke \/ ReadLock \/ Get \/ MutexLock \/ Push \/ WriteLock \/ Insert

SpecLog == InitLog /\ [][NextLog]_vars

\* The log list of a target (empty when the target has no entry).
LogOf(t) == IF t \in DOMAIN logs THEN logs[t] ELSE <<>>
\* How often message m is in list l.
Occurrences(l, m) == Cardinality({i \in 1..Len(l) : l[i] = m})

\* C6: the log store loses nothing: the message of every log() call that
\* has returned is in its target's list exactly once (so when all calls
\* have returned, every submitted message is there exactly once).
C6_NoMessageLost ==
    \A c \in Callers :
        IsSome(ctxTarget[c]) =>
            \A k \in 1..returned[c] :
                Occurrences(LogOf(Unwrap(ctxTarget[c])), Message(c, k)) = 1

\* C7: a caller's submission order is kept: once the later of two messages
\* of one caller is in the target's list, the earlier one is in it before
\* that.
C7_SubmissionOrderKept ==
    \A c \in Callers :
        IsSome(ctxTarget[c]) =>
            LET l == LogOf(Unwrap(ctxTarget[c]))
            IN  \A k2 \in 1..returned[c] : \A k1 \in 1..(k2 - 1) :
                    (\E j \in 1..Len(l) : l[j] = Message(c, k2)) =>
                        \E i, j \in 1..Len(l) :
                            i < j /\ l[i] = Message(c, k1) /\ l[j] = Message(c, k2)

(***************************************************************************)
(* context.rs: Context, with_target, with_task, get_locked_version,        *)
(* to_dir, working_directory, scratch_dir                                  *)
(***************************************************************************)

\* Bound of the Context model: the length of a target name.
MaxTargetLen == 2

\* The characters of target names: the three sanitized ones, their
\* replacement and another one.
TargetChars == {"a", ":", "/", "@", "_"}
CtxTargets == SeqsUpTo(TargetChars, MaxTargetLen)

\* The config hashes of the tasks a Context is narrowed to.
ConfigHashes == {0, 10, 171, 4096, 57005}

\* The literals of the path functions.
StrResolve == <<"r", "e", "s", "o", "l", "v", "e">>
StrBuild == <<"b", "u", "i", "l", "d">>
StrScratch == <<"s", "c", "r", "a", "t", "c", "h">>

\* A PathBuf is the sequence of its components, each a String.
CacheDirs == {<< <<"c">> >>, << <<"c">>, <<"d">> >>}

\* The lockfiles of the model: none, and one that locks three targets
\* ("a" to "1", "a:" and "a/" to "1,f").
Lockfiles ==
    {EmptyMap,
     [t \in {<<"a">>, <<"a", ":">>, <<"a", "/">>} |->
        IF t = <<"a">> THEN <<"1">> ELSE <<"1", ",", "f">>]}

\* std::io::Result
Ok(v) == [ok |-> TRUE, value |-> v]
Err(kind) == [ok |-> FALSE, kind |-> kind]

\* Context::new (the lockfile starts empty; its owner installs one).
ContextNew(cache_dir, config) ==
    [cache_dir |-> cache_dir, config |-> config, lockfile |-> EmptyMap,
     target |-> None, target_hash |-> None, hash |-> 0]

\* Context::get_config
get_config(c, key) == IF key \in DOMAIN c.config THEN Some(c.config[key]) ELSE None

\* Context::with_target
with_target(c, target) == [c EXCEPT !.target = Some(target)]

\* A mutation of with_task: the target of the task is not bound.
with_task_hash_only(c, t) ==
    [c EXCEPT !.target_hash = IF IsSome(t.config) THEN Some(Unwrap(t.config).hash) ELSE None]

\* Context::with_task
with_task(c, t) ==
    [c EXCEPT !.target = Some(t.target),
              !.target_hash = IF IsSome(t.config) THEN Some(Unwrap(t.config).hash) ELSE None]

\* A mutation of get_locked_version: the missing entry is reported as an
\* error of another kind.
get_locked_version_other(c, target) ==
    IF target \in DOMAIN c.lockfile THEN Ok(c.lockfile[target]) ELSE Err("Other")

\* Context::get_locked_version
get_locked_version(c, target) ==
    IF target \in DOMAIN c.lockfile THEN Ok(c.lockfile[target]) ELSE Err("NotFound")

\* Result::unwrap_or_else(|_| String::new())
unwrap_or_empty(r) == IF r.ok THEN r.value ELSE <<>>

\* str::replace(&[..], to), character by character.
RECURSIVE replace(_, _, _)
replace(name, from, to) ==
    IF name = <<>> THEN <<>>
    ELSE <<IF Head(name) \in from THEN to ELSE Head(name)>> \o replace(Tail(name), from, to)

\* A mutation of to_dir: '@' is not in the list of replaced characters.
to_dir_without_at(name) == replace(name, {":", "/"}, "_")

\* to_dir
to_dir(name) == replace(name, {":", "/", "@"}, "_")

HexDigits == <<"0", "1", "2", "3", "4", "5", "6", "7", "8", "9", "a", "b", "c", "d", "e", "f">>

\* format!("{h:x}")
RECURSIVE lower_hex(_)
lower_hex(h) ==
    IF h < 16 THEN <<HexDigits[h + 1]>>
    ELSE Append(lower_hex(h \div 16), HexDigits[(h % 16) + 1])

\* The components of a relative path string: split at '/', empty ones dropped.
RECURSIVE components(_, _)
components(str, cur) ==
    IF str = <<>> THEN (IF cur = <<>> THEN <<>> ELSE <<cur>>)
    ELSE IF Head(str) = "/"
         THEN (IF cur = <<>> THEN <<>> ELSE <<cur>>) \o components(Tail(str), <<>>)
         ELSE components(Tail(str), Append(cur, Head(str)))

\* PathBuf::join: an absolute path replaces the base, a relative one is
\* appended to it.
join(path, str) ==
    IF str # <<>> /\ Head(str) = "/"
    THEN << <<"/">> >> \o components(str, <<>>)
    ELSE path \o components(str, <<>>)

\* What a path function does: it returns a path or panics.
Returned(path) == [panicked |-> FALSE, path |-> path]
Panicked == [panicked |-> TRUE, path |-> <<>>]

\* Context::working_directory
working_directory(c) ==
    IF IsSome(c.target) /\ IsNone(c.target_hash)
    THEN LET t == Unwrap(c.target)
             v == unwrap_or_empty(get_locked_version(c, t))
         IN  Returned(join(join(c.cache_dir, StrResolve), to_dir(t) \o <<"-">> \o v))
    ELSE IF IsSome(c.target) /\ IsSome(c.target_hash)
    THEN LET t == Unwrap(c.target)
             h == Unwrap(c.target_hash)
         IN  Returned(join(join(c.cache_dir, StrBuild), to_dir(t) \o <<"-">> \o lower_hex(h)))
    ELSE IF IsNone(c.target) /\ IsNone(c.target_hash)
    THEN Returned(c.cache_dir)
    ELSE Panicked

\* Context::scratch_dir
scratch_dir(c) ==
    IF IsSome(c.target) /\ IsNone(c.target_hash)
    THEN LET t == Unwrap(c.target)
             v == unwrap_or_empty(get_locked_version(c, t))
         IN  Returned(join(join(join(c.cache_dir, StrResolve), StrScratch),
                           to_dir(t) \o <<"-">> \o v))
    ELSE IF IsSome(c.target) /\ IsSome(c.target_hash)
    THEN LET t == Unwrap(c.target)
             h == Unwrap(c.target_hash)
         IN  Returned(join(join(join(c.cache_dir, StrBuild), StrScratch),
                           to_dir(t) \o <<"-">> \o lower_hex(h)))
    ELSE IF IsNone(c.target) /\ IsNone(c.target_hash)
    THEN Returned(c.cache_dir)
    ELSE Panicked

\* The tasks a Context is narrowed to: a target, and a Config with its hash
\* once resolved.
CtxTasks ==
    {[TaskNew(1, t) EXCEPT !.config = cfg] :
        t \in CtxTargets,
        cfg \in {None} \cup {Some([MkConfig(<<>>, "//x", <<>>) EXCEPT !.hash = h]) :
                                h \in ConfigHashes}}

InitCtx ==
    /\ ctx \in {Some([ContextNew(d, EmptyMap) EXCEPT !.lockfile = l]) :
                    d \in CacheDirs, l \in Lockfiles}
    /\ dirsOut = None
    /\ StatusIdle /\ TaskIdle /\ MergedIdle /\ DepsIdle /\ LogIdle /\ ResolveIdle /\ RestIdle

\* with_target: the Context is narrowed to a target.
WithTarget(target) ==
    /\ ctx' = Some(with_target(Unwrap(ctx), target))
    /\ dirsOut' = None
    /\ UNCHANGED ctxOthers

\* with_task: the Context is narrowed to a task.
WithTask(t) ==
    /\ ctx' = Some(with_task(Unwrap(ctx), t))
    /\ dirsOut' = None
    /\ UNCHANGED ctxOthers

\* working_directory() and scratch_dir() are called on the Context.
CallDirs ==
    /\ dirsOut = None
    /\ dirsOut' = Some([working_directory |-> working_directory(Unwrap(ctx)),
                        scratch_dir |-> scratch_dir(Unwrap(ctx))])
    /\ UNCHANGED <<ctx, ctxOthers>>

NarrowToTarget == \E t \in CtxTargets : WithTarget(t)
NarrowToTask == \E t \in CtxTasks : WithTask(t)

NextCtx == NarrowToTarget \/ NarrowToTask \/ CallDirs

SpecCtx == InitCtx /\ [][NextCtx]_vars

\* s is name with every ':', '/' and '@' replaced by '_'.
IsSanitized(s, name) ==
    /\ Len(s) = Len(name)
    /\ \A i \in 1..Len(name) :
          s[i] = (IF name[i] = ":" \/ name[i] = "/" \/ name[i] = "@" THEN "_" ELSE name[i])

\* The number a string of lowercase hex digits denotes (-1 when it has
\* another character).
HexDigitValue(ch) ==
    IF \E i \in 1..16 : HexDigits[i] = ch
    THEN (CHOOSE i \in 1..16 : HexDigits[i] = ch) - 1
    ELSE -1

RECURSIVE HexValue(_)
HexValue(s) ==
    IF s = <<>> THEN 0
    ELSE LET d == HexDigitValue(s[Len(s)])
             rest == HexValue(SubSeq(s, 1, Len(s) - 1))
         IN  IF d < 0 \/ rest < 0 THEN -1 ELSE 16 * rest + d

\* s is h in lowercase hex, without leading zeros.
IsLowerHexOf(s, h) ==
    /\ Len(s) >= 1
    /\ HexValue(s) = h
    /\ Len(s) > 1 => s[1] # "0"

\* r is the path base, then the components mid, then one component that
\* is the sanitized target, '-' and a suffix.
IsCachePath(r, base, mid, target) ==
    /\ ~r.panicked
    /\ Len(r.path) = Len(base) + Len(mid) + 1
    /\ SubSeq(r.path, 1, Len(base) + Len(mid)) = base \o mid
    /\ LET comp == r.path[Len(r.path)]
       IN  /\ Len(comp) >= Len(target) + 1
           /\ IsSanitized(SubSeq(comp, 1, Len(target)), target)
           /\ comp[Len(target) + 1] = "-"

\* The suffix of the last component of such a path.
SuffixOf(r, target) ==
    LET comp == r.path[Len(r.path)] IN SubSeq(comp, Len(target) + 2, Len(comp))

\* C10: with no target bound working_directory() and scratch_dir() return
\* the cache root; with a target and no hash <root>/resolve/<d> and
\* <root>/resolve/scratch/<d>, d the sanitized target, '-' and the locked
\* version string (empty without a lockfile entry); with target and hash
\* <root>/build/<e> and <root>/build/scratch/<e>, e the sanitized target,
\* '-' and the hash in lowercase hex.
C10_CacheLayout ==
    IsSome(dirsOut) =>
        LET c == Unwrap(ctx)
            wd == Unwrap(dirsOut).working_directory
            sd == Unwrap(dirsOut).scratch_dir
            t == Unwrap(c.target)
            version == IF t \in DOMAIN c.lockfile THEN c.lockfile[t] ELSE <<>>
        IN  /\ IsNone(c.target) =>
                 wd = Returned(c.cache_dir) /\ sd = Returned(c.cache_dir)
            /\ IsSome(c.target) /\ IsNone(c.target_hash) =>
                 /\ IsCachePath(wd, c.cache_dir, <<StrResolve>>, t)
                 /\ SuffixOf(wd, t) = version
                 /\ IsCachePath(sd, c.cache_dir, <<StrResolve, StrScratch>>, t)
                 /\ SuffixOf(sd, t) = version
            /\ IsSome(c.target) /\ IsSome(c.target_hash) =>
                 /\ IsCachePath(wd, c.cache_dir, <<StrBuild>>, t)
                 /\ IsLowerHexOf(SuffixOf(wd, t), Unwrap(c.target_hash))
                 /\ IsCachePath(sd, c.cache_dir, <<StrBuild, StrScratch>>, t)
                 /\ IsLowerHexOf(SuffixOf(sd, t), Unwrap(c.target_hash))

\* C10 witness: the two functions returned for a Context bound to a target
\* that has a '@' and another sanitized character, and to the hash 0xdead.
C10_Witness ==
    /\ IsSome(dirsOut)
    /\ LET c == Unwrap(ctx)
       IN  /\ c.target \in {Some(<<"@", "/">>), Some(<<":", "@">>)}
           /\ c.target_hash = Some(57005)
           /\ Unwrap(dirsOut).working_directory.path[Len(c.cache_dir) + 2]
                = <<"_", "_", "-", "d", "e", "a", "d">>

\* ------------------------------------------------------------------------
\* SpecTree: the Contexts reachable from Context::new by with_target and
\* with_task, two at a time: the Context a call is made on and the one the
\* call returns.  The tasks are those of the scheduler's pool, one per
\* target, unresolved or resolved.

\* Bound of the Context tree: the length of a target name.
MaxTreeLen == 1

TreeChars == {"a", ":", "/"}
TreeTargets == SeqsUpTo(TreeChars, MaxTreeLen) \ {<<>>}

\* The hash of the resolved Config of the task for a target: each target
\* of the pool has its own.
CharCode(ch) == IF ch = "a" THEN 1 ELSE IF ch = ":" THEN 2 ELSE 3

RECURSIVE PoolHash(_)
PoolHash(t) ==
    IF t = <<>> THEN 0 ELSE 4 * PoolHash(SubSeq(t, 1, Len(t) - 1)) + CharCode(t[Len(t)])

\* The pool: the task of each target, before and after its resolution.
PoolConfig(t) == [MkConfig(<<>>, "//x", <<>>) EXCEPT !.hash = PoolHash(t)]
TreePool ==
    {TaskNew(1, t) : t \in TreeTargets}
        \cup {[TaskNew(1, t) EXCEPT !.config = Some(PoolConfig(t))] : t \in TreeTargets}

InitTree ==
    /\ parent \in {Some([ContextNew(<< <<"c">> >>, EmptyMap) EXCEPT !.lockfile = l]) :
                       l \in Lockfiles}
    /\ child = None
    /\ kept = None
    /\ treeOut = None
    /\ CoreIdle /\ ParseIdle /\ HashIdle /\ BuildIdle

\* parent.with_target(target): the call borrows the parent (&self) and
\* returns the child.
TreeWithTarget(target) ==
    /\ kept' = parent
    /\ child' = Some(with_target(Unwrap(parent), target))
    /\ parent' = parent
    /\ treeOut' = None
    /\ UNCHANGED treeOthers

\* parent.with_task(&task)
TreeWithTask(t) ==
    /\ kept' = parent
    /\ child' = Some(with_task(Unwrap(parent), t))
    /\ parent' = parent
    /\ treeOut' = None
    /\ UNCHANGED treeOthers

\* The next calls are made on the child.
Descend ==
    /\ IsSome(child)
    /\ parent' = child
    /\ child' = None
    /\ kept' = None
    /\ treeOut' = None
    /\ UNCHANGED treeOthers

\* working_directory() and scratch_dir() are called on parent and child.
TreeDirs ==
    /\ IsSome(child)
    /\ treeOut = None
    /\ treeOut' = Some([parent |-> [working_directory |-> working_directory(Unwrap(parent)),
                                    scratch_dir |-> scratch_dir(Unwrap(parent))],
                        child |-> [working_directory |-> working_directory(Unwrap(child)),
                                   scratch_dir |-> scratch_dir(Unwrap(child))]])
    /\ UNCHANGED <<parent, child, kept, treeOthers>>

TreeNarrowToTarget == \E t \in TreeTargets : TreeWithTarget(t)
TreeNarrowToTask == \E t \in TreePool : TreeWithTask(t)

NextTree == TreeNarrowToTarget \/ TreeNarrowToTask \/ Descend \/ TreeDirs

SpecTree == InitTree /\ [][NextTree]_vars

\* The Contexts of a state of SpecTree.
TreeContexts == {Unwrap(o) : o \in {x \in {parent, child} : IsSome(x)}}

\* C11: two Contexts with the same cache root and lockfile and distinct
\* (target, target_hash) pairs never have the same working_directory() and
\* never have the same scratch_dir().
C11_DirsInjective ==
    IsSome(treeOut) =>
        LET p == Unwrap(parent)
            c == Unwrap(child)
            out == Unwrap(treeOut)
        IN  (/\ p.cache_dir = c.cache_dir
             /\ p.lockfile = c.lockfile
             /\ <<p.target, p.target_hash>> # <<c.target, c.target_hash>>)
            => /\ out.parent.working_directory # out.child.working_directory
               /\ out.parent.scratch_dir # out.child.scratch_dir

\* C19: in every Context reachable from Context::new by with_target and
\* with_task, target_hash is Some only if target is Some; so
\* working_directory() and scratch_dir() never reach their panic branch;
\* and a call leaves target and target_hash of the Context it is made on
\* as they were.
C19_HashOnlyWithTarget ==
    /\ \A c \in TreeContexts : IsSome(c.target_hash) => IsSome(c.target)
    /\ IsSome(treeOut) =>
          \A who \in {"parent", "child"} :
              /\ ~Unwrap(treeOut)[who].working_directory.panicked
              /\ ~Unwrap(treeOut)[who].scratch_dir.panicked
    /\ IsSome(kept) =>
          /\ Unwrap(parent).target = Unwrap(kept).target
          /\ Unwrap(parent).target_hash = Unwrap(kept).target_hash

\* C19 witness: with_task was called on a Context bound to a target and no
\* hash, it returned a Context bound to another target and to a hash, and
\* both path functions returned for the two.
C19_Witness ==
    /\ IsSome(kept) /\ IsSome(child) /\ IsSome(treeOut)
    /\ IsSome(Unwrap(parent).target) /\ IsNone(Unwrap(parent).target_hash)
    /\ IsSome(Unwrap(child).target_hash)
    /\ Unwrap(child).target # Unwrap(parent).target

\* C20: in every Context reachable from Context::new by with_target and
\* with_task, a bound target_hash is the config hash of a task whose
\* target is the Context's target.
C20_HashBelongsToTarget ==
    \A c \in TreeContexts :
        IsSome(c.target_hash) =>
            \E t \in TreePool :
                /\ Some(t.target) = c.target
                /\ IsSome(t.config)
                /\ Unwrap(t.config).hash = Unwrap(c.target_hash)

(***************************************************************************)
(* cargo.rs: the manifest (toml::Table), parse_lockstring,                 *)
(* resolve_cfg_directive, parse_cargo_toml                                 *)
(***************************************************************************)

\* BuildConfigKey::TargetFamily
TargetFamily == 1
\* ConfigExtraKeys::Features
Features == 0

StrCargoScheme == <<"c", "a", "r", "g", "o", ":", "/", "/">>
StrCfgOpen == <<"c", "f", "g", "(">>
StrDepColon == <<"d", "e", "p", ":">>
StrUnix == <<"u", "n", "i", "x">>
StrTarget == <<"t", "a", "r", "g", "e", "t">>
StrDependencies == <<"d", "e", "p", "e", "n", "d", "e", "n", "c", "i", "e", "s">>
StrFeatures == <<"f", "e", "a", "t", "u", "r", "e", "s">>
StrOptional == <<"o", "p", "t", "i", "o", "n", "a", "l">>
StrVersion == <<"v", "e", "r", "s", "i", "o", "n">>

\* str::starts_with
starts_with(str, prefix) ==
    Len(str) >= Len(prefix) /\ SubSeq(str, 1, Len(prefix)) = prefix

\* str::strip_prefix
strip_prefix(str, prefix) ==
    IF starts_with(str, prefix) THEN Some(SubSeq(str, Len(prefix) + 1, Len(str))) ELSE None

\* CargoResolver::can_resolve
can_resolve(target) == starts_with(target, StrCargoScheme)

\* str::contains(char)
contains(str, ch) == \E i \in 1..Len(str) : str[i] = ch

\* str::split(sep), collected: the pieces between the separators, empty
\* ones kept.
RECURSIVE split(_, _, _)
split(str, sep, cur) ==
    IF str = <<>> THEN <<cur>>
    ELSE IF Head(str) = sep THEN <<cur>> \o split(Tail(str), sep, <<>>)
    ELSE split(Tail(str), sep, Append(cur, Head(str)))

\* parse_lockstring: (version, features)
parse_lockstring(l) ==
    LET components_ == split(l, ",", <<>>)
    IN  [version |-> Head(components_), features |-> Tail(components_)]

\* toml::Value.  A Table lists its entries in iteration order.
TTable(entries) == [type |-> "Table", entries |-> entries]
TString(str) == [type |-> "String", str |-> str]
TBoolean(b) == [type |-> "Boolean", b |-> b]
TArray(items) == [type |-> "Array", items |-> items]
Entry(key, value) == [key |-> key, value |-> value]

\* Table::get / Value::get(&str)
table_get(v, key) ==
    IF v.type = "Table" /\ \E i \in 1..Len(v.entries) : v.entries[i].key = key
    THEN Some(v.entries[CHOOSE i \in 1..Len(v.entries) : v.entries[i].key = key].value)
    ELSE None

\* The entries of an Option<&Value> that is a Table, none otherwise
\* (.iter().filter_map(table).flatten()).
entries_of(opt) ==
    IF IsSome(opt) /\ Unwrap(opt).type = "Table" THEN Unwrap(opt).entries ELSE <<>>

\* resolve_cfg_directive (it never returns Err)
resolve_cfg_directive(context, directive) ==
    IF directive = StrUnix /\ get_config(context, TargetFamily) = Some(StrUnix)
    THEN Ok(TRUE)
    ELSE Ok(FALSE)

\* &k[4..k.len() - 1] panics when the key is just "cfg(".
cfg_slice_panics(k) == starts_with(k, StrCfgOpen) /\ Len(k) - 1 < 4

\* The closure of lines 71-84: what one entry of the `target` table
\* contributes, the entries of its `dependencies` table or nothing.
target_entry_deps(context, e) ==
    IF /\ starts_with(e.key, StrCfgOpen)
       /\ ~resolve_cfg_directive(context, SubSeq(e.key, 5, Len(e.key) - 1)).value
    THEN <<>>
    ELSE IF e.value.type = "Table"
    THEN entries_of(table_get(e.value, StrDependencies))
    ELSE <<>>

\* target_deps_iter: .filter_map(closure).flatten() over the entries of
\* the `target` table.
RECURSIVE target_deps_iter(_, _)
target_deps_iter(context, entries) ==
    IF entries = <<>> THEN <<>>
    ELSE target_entry_deps(context, Head(entries)) \o target_deps_iter(context, Tail(entries))

\* deps_table_iter: the entries of `dependencies`, then those of the
\* `target` tables that apply.
deps_table_iter(context, table) ==
    entries_of(table_get(table, StrDependencies))
        \o target_deps_iter(context, entries_of(table_get(table, StrTarget)))

\* A mutation of the loop of lines 98-108: optional entries are pushed too.
RECURSIVE push_mandatory_keep_optional(_)
push_mandatory_keep_optional(entries) ==
    IF entries = <<>> THEN <<>>
    ELSE <<Head(entries).key>> \o push_mandatory_keep_optional(Tail(entries))

\* The loop of lines 98-108 over the entries: the names of those not
\* marked optional.
RECURSIVE push_mandatory(_)
push_mandatory(entries) ==
    IF entries = <<>> THEN <<>>
    ELSE LET e == Head(entries)
         IN  (IF /\ e.value.type = "Table"
                 /\ table_get(e.value, StrOptional) = Some(TBoolean(TRUE))
              THEN <<>>
              ELSE <<e.key>>)
             \o push_mandatory(Tail(entries))

\* dependencies, before the optional ones are appended.
mandatory_dependencies(context, table) == push_mandatory(deps_table_iter(context, table))

\* all_features: the keys of the `features` table.
all_features(table) ==
    LET es == entries_of(table_get(table, StrFeatures))
    IN  {es[i].key : i \in 1..Len(es)}

\* A mutation of the classification of a requirement entry: no look-up in
\* all_features.
requirement_dep_unchecked(table, dep) ==
    IF dep.type # "String" THEN {}
    ELSE IF starts_with(dep.str, StrDepColon) THEN {SubSeq(dep.str, 5, Len(dep.str))}
    ELSE IF contains(dep.str, "/") THEN {}
    ELSE {dep.str}

\* What one requirement entry of an enabled feature inserts into
\* optional_deps (lines 125-146).
requirement_dep(table, dep) ==
    IF dep.type # "String" THEN {}
    ELSE IF starts_with(dep.str, StrDepColon) THEN {SubSeq(dep.str, 5, Len(dep.str))}
    ELSE IF dep.str \in all_features(table) THEN {}
    ELSE IF contains(dep.str, "/") THEN {}
    ELSE {dep.str}

\* optional_deps: the HashSet lines 117-150 fill.
optional_deps(table, features) ==
    LET es == entries_of(table_get(table, StrFeatures))
        enabled == {i \in 1..Len(es) :
                        /\ \E f \in 1..Len(features) : features[f] = es[i].key
                        /\ es[i].value.type = "Array"}
    IN  UNION {UNION {requirement_dep(table, es[i].value.items[j]) :
                        j \in 1..Len(es[i].value.items)} : i \in enabled}

\* The order in which a HashSet hands out its elements is unspecified: the
\* hasher of every HashSet is seeded anew (RandomState::new).  A seed is an
\* order of all names, and the set is handed out in that order.
IterationOrders(S) ==
    {o \in [1..Cardinality(S) -> S] : \A i, j \in 1..Cardinality(S) : o[i] = o[j] => i = j}

RECURSIVE into_iter(_, _)
into_iter(S, seed) ==
    IF seed = <<>> THEN <<>>
    ELSE (IF Head(seed) \in S THEN <<Head(seed)>> ELSE <<>>) \o into_iter(S, Tail(seed))

\* parse_cargo_toml.  file is the content of Cargo.toml (None: no such
\* file; not a Table: it does not parse); seed decides the order in which
\* optional_deps.into_iter() hands out the set.
parse_cargo_toml(context, file, features, seed) ==
    IF IsNone(file) THEN Err("NotFound")
    ELSE IF Unwrap(file).type # "Table" THEN Err("InvalidData")
    ELSE LET table == Unwrap(file)
             tes == entries_of(table_get(table, StrTarget))
         IN  IF \E i \in 1..Len(tes) : cfg_slice_panics(tes[i].key)
             THEN Err("Panic")
             ELSE Ok([dependencies |->
                        mandatory_dependencies(context, table)
                            \o into_iter(optional_deps(table, features), seed)])

\* ------------------------------------------------------------------------
\* SpecParse: parse_cargo_toml on the manifests a crate can have.  A
\* toml::Table iterates in the order of its keys, so the entries of every
\* table below are in that order.

\* Bound of the manifest model: the number of features a lockfile entry
\* enables.
MaxFeatures == 2

StrWindows == <<"w", "i", "n", "d", "o", "w", "s">>
\* The condition keys of the `target` table: cfg(unix), cfg(windows), and a
\* target triple, as in [target.x86_64-pc-windows-gnu.dependencies].
KeyCfgUnix == StrCfgOpen \o StrUnix \o <<")">>
KeyCfgWindows == StrCfgOpen \o StrWindows \o <<")">>
KeyTriple == <<"x", "8", "6", "_", "6", "4", "-", "p", "c", "-">> \o StrWindows \o <<"-", "g", "n", "u">>

\* name = "1"
Plain(name) == Entry(name, TString(<<"1">>))
\* name = { optional = true, version = "1" }
Optional(name) ==
    Entry(name, TTable(<<Entry(StrOptional, TBoolean(TRUE)),
                         Entry(StrVersion, TString(<<"1">>))>>))
\* [target.<key>.dependencies] with the given entries
Platform(key, entries) == Entry(key, TTable(<<Entry(StrDependencies, TTable(entries))>>))

\* The [dependencies] tables: none; one mandatory dependency; with two
\* optional ones; with an optional one that has the name of a feature.
DependencyTables ==
    {None,
     Some(TTable(<<Plain(<<"m">>)>>)),
     Some(TTable(<<Plain(<<"m">>), Optional(<<"x">>), Optional(<<"y">>)>>)),
     Some(TTable(<<Optional(<<"f">>), Plain(<<"m">>), Optional(<<"x">>)>>))}

\* The [target] tables: none; one condition of each kind; and two
\* conditions, the first with a dependency that [dependencies] may list as
\* optional.
TargetTables ==
    {None,
     Some(TTable(<<Platform(KeyCfgUnix, <<Plain(<<"u">>)>>)>>)),
     Some(TTable(<<Platform(KeyCfgWindows, <<Plain(<<"w">>)>>)>>)),
     Some(TTable(<<Platform(KeyTriple, <<Plain(<<"w">>)>>)>>)),
     Some(TTable(<<Platform(KeyCfgUnix, <<Plain(<<"u">>), Plain(<<"x">>)>>),
                   Platform(KeyCfgWindows, <<Plain(<<"w">>)>>)>>))}

\* The [features] tables: none; f = ["dep:x"], g = ["f", "y"]; and one
\* whose feature f has the name of the optional dependency it enables:
\* f = ["dep:f"], g = ["f", "m/s", "x"], h = ["x"].
FeatureTables ==
    {None,
     Some(TTable(<<Entry(<<"f">>, TArray(<<TString(StrDepColon \o <<"x">>)>>)),
                   Entry(<<"g">>, TArray(<<TString(<<"f">>), TString(<<"y">>)>>))>>)),
     Some(TTable(<<Entry(<<"f">>, TArray(<<TString(StrDepColon \o <<"f">>)>>)),
                   Entry(<<"g">>, TArray(<<TString(<<"f">>), TString(<<"m", "/", "s">>),
                                           TString(<<"x">>)>>)),
                   Entry(<<"h">>, TArray(<<TString(<<"x">>)>>))>>))}

\* The manifest with these three tables, those that are there.
Manifest(deps, feats, targets) ==
    TTable((IF IsSome(deps) THEN <<Entry(StrDependencies, Unwrap(deps))>> ELSE <<>>)
           \o (IF IsSome(feats) THEN <<Entry(StrFeatures, Unwrap(feats))>> ELSE <<>>)
           \o (IF IsSome(targets) THEN <<Entry(StrTarget, Unwrap(targets))>> ELSE <<>>))

Manifests ==
    {Manifest(d, f, t) : d \in DependencyTables, f \in FeatureTables, t \in TargetTables}

\* The locked feature lists, the names a feature can enable, and the
\* orders a HashSet of them can be handed out in.
FeatureNames == {<<"f">>, <<"g">>, <<"h">>}
FeatureLists == SeqsUpTo(FeatureNames, MaxFeatures)
ParseNames == {<<"f">>, <<"x">>, <<"y">>}
ParseSeeds == IterationOrders(ParseNames)

\* The Contexts: no target family configured, unix, windows.
ParseContexts ==
    {ContextNew(<< <<"c">> >>, EmptyMap)}
        \cup {ContextNew(<< <<"c">> >>, [k \in {TargetFamily} |-> fam]) :
                fam \in {StrUnix, StrWindows}}

InitParse ==
    /\ pIn \in {Some([context |-> c, file |-> Some(m), features |-> fl, seed |-> sd]) :
                    c \in ParseContexts, m \in Manifests,
                    fl \in FeatureLists, sd \in ParseSeeds}
    /\ pOut = None
    /\ CoreIdle /\ TreeIdle /\ HashIdle /\ BuildIdle

CallParse ==
    /\ pOut = None
    /\ LET in == Unwrap(pIn)
       IN  pOut' = Some(parse_cargo_toml(in.context, in.file, in.features, in.seed))
    /\ UNCHANGED <<pIn, parseOthers>>

NextParse == CallParse

SpecParse == InitParse /\ [][NextParse]_vars

\* What the claims about parse_cargo_toml speak of.
NamesOf(seq) == {seq[i] : i \in 1..Len(seq)}
ParsedOk == IsSome(pOut) /\ Unwrap(pOut).ok
ParsedDependencies == Unwrap(pOut).value.dependencies
ParsedTable == Unwrap(Unwrap(pIn).file)
DependencyEntries == entries_of(table_get(ParsedTable, StrDependencies))
TargetEntries == entries_of(table_get(ParsedTable, StrTarget))
FeatureEntries == entries_of(table_get(ParsedTable, StrFeatures))
DeclaredFeatures == {FeatureEntries[i].key : i \in 1..Len(FeatureEntries)}

\* The entry is marked optional.
MarkedOptional(e) ==
    /\ e.value.type = "Table"
    /\ \E i \in 1..Len(e.value.entries) :
          e.value.entries[i] = Entry(StrOptional, TBoolean(TRUE))

\* The keys of the entries of a dependency table that are not marked
\* optional, in order.
RECURSIVE MandatoryNames(_)
MandatoryNames(entries) ==
    IF entries = <<>> THEN <<>>
    ELSE (IF MarkedOptional(Head(entries)) THEN <<>> ELSE <<Head(entries).key>>)
         \o MandatoryNames(Tail(entries))

\* The condition is recognized and satisfied: cfg(unix), for the unix family.
Satisfied(context, key) ==
    key = KeyCfgUnix /\ get_config(context, TargetFamily) = Some(StrUnix)

\* The entries of the dependency tables under the satisfied conditions.
RECURSIVE SatisfiedEntries(_, _)
SatisfiedEntries(context, tes) ==
    IF tes = <<>> THEN <<>>
    ELSE (IF Satisfied(context, Head(tes).key)
          THEN entries_of(table_get(Head(tes).value, StrDependencies))
          ELSE <<>>)
         \o SatisfiedEntries(context, Tail(tes))

\* The entries of all dependency tables under `target`, whatever the condition.
RECURSIVE AllTargetEntries(_)
AllTargetEntries(tes) ==
    IF tes = <<>> THEN <<>>
    ELSE entries_of(table_get(Head(tes).value, StrDependencies)) \o AllTargetEntries(Tail(tes))

\* The requirement strings of the features the lockfile entry enables.
EnabledRequirements ==
    UNION {{FeatureEntries[i].value.items[j].str : j \in 1..Len(FeatureEntries[i].value.items)} :
            i \in {k \in 1..Len(FeatureEntries) :
                      FeatureEntries[k].key \in NamesOf(Unwrap(pIn).features)}}

\* The optional dependencies the enabled features name: by a dep: entry, or
\* by an entry that is neither a declared feature nor has a '/'.
EnabledOptional ==
    {n \in ParseNames :
        \/ StrDepColon \o n \in EnabledRequirements
        \/ n \in EnabledRequirements /\ n \notin DeclaredFeatures /\ ~contains(n, "/")}

\* C12: a table under `target` contributes its dependencies only when its
\* condition key is recognized and satisfied (cfg(unix), with TargetFamily
\* "unix"); every other key contributes nothing: each name is in the
\* dependency list once per entry of [dependencies] and of the satisfied
\* tables that is not marked optional, and once more if a feature enables it.
C12_FailClosed ==
    ParsedOk =>
        LET expected == MandatoryNames(DependencyEntries
                            \o SatisfiedEntries(Unwrap(pIn).context, TargetEntries))
        IN  \A n \in NamesOf(ParsedDependencies) \cup NamesOf(expected) :
                Occurrences(ParsedDependencies, n)
                    = Occurrences(expected, n) + (IF n \in EnabledOptional THEN 1 ELSE 0)

\* The requirement entries of enabled features that name a declared
\* feature and have no dep: prefix.
FeatureReferences ==
    {r \in EnabledRequirements : r \in DeclaredFeatures /\ ~starts_with(r, StrDepColon)}

\* C13 as claimed: a requirement entry of an enabled feature that names a
\* declared feature, and is not prefixed dep:, is never in the dependency
\* list.
C13_FeatureReferenceNeverListed ==
    ParsedOk => \A r \in FeatureReferences : r \notin NamesOf(ParsedDependencies)

\* C13: a requirement entry of an enabled feature that names a declared
\* feature, and is not prefixed dep:, puts no name of its own into the
\* dependency list: its name is there only if an enabled feature has the
\* entry dep:<name>, or if a dependency entry not marked optional has that
\* name.
C13_FeatureReferenceAddsNothing ==
    ParsedOk =>
        \A r \in FeatureReferences :
            r \in NamesOf(ParsedDependencies) =>
                \/ StrDepColon \o r \in EnabledRequirements
                \/ r \in NamesOf(MandatoryNames(DependencyEntries \o AllTargetEntries(TargetEntries)))

\* C13 witness: the feature g is enabled and f is not, g requires the
\* declared feature f and the optional dependency y; y is in the list.
C13_Witness ==
    /\ ParsedOk
    /\ Unwrap(pIn).features = << <<"g">> >>
    /\ <<"f">> \in FeatureReferences
    /\ <<"y">> \in NamesOf(ParsedDependencies)
    /\ <<"m">> \in NamesOf(ParsedDependencies)

\* The dependency list is the names of entries not marked optional, then
\* each optional dependency an enabled feature names, once.
MandatoryThenOptional ==
    LET out == ParsedDependencies
        k == Len(out) - Cardinality(EnabledOptional)
        mandatory == NamesOf(MandatoryNames(DependencyEntries \o AllTargetEntries(TargetEntries)))
    IN  /\ k >= 0
        /\ \A i \in 1..k : out[i] \in mandatory
        /\ {out[i] : i \in (k + 1)..Len(out)} = EnabledOptional

\* The names of the entries marked optional.
OptionalEntryNames ==
    LET es == DependencyEntries \o AllTargetEntries(TargetEntries)
    IN  {es[i].key : i \in {j \in 1..Len(es) : MarkedOptional(es[j])}}

\* C14 as claimed: the mandatory dependencies come first, then each optional
\* dependency the enabled features name, once; and an entry marked optional
\* that no enabled feature names is not in the list at all.
C14_OptionalAppendedOnce ==
    ParsedOk =>
        /\ MandatoryThenOptional
        /\ \A n \in OptionalEntryNames \ EnabledOptional : n \notin NamesOf(ParsedDependencies)

\* C14: the mandatory dependencies come first, then each optional
\* dependency the enabled features name, once; an entry marked optional
\* that no enabled feature names adds nothing: its name is in the list only
\* as often as entries of that name that are not marked optional are.
C14_OptionalAppendedOnceOrAbsent ==
    ParsedOk =>
        /\ MandatoryThenOptional
        /\ \A n \in OptionalEntryNames \ EnabledOptional :
              Occurrences(ParsedDependencies, n)
                  <= Occurrences(MandatoryNames(DependencyEntries
                                    \o AllTargetEntries(TargetEntries)), n)

\* C14 witness: g and h are enabled and both require x, which is marked
\* optional as y is; the list is m, then x once, and y is not in it.
C14_Witness ==
    /\ ParsedOk
    /\ Unwrap(pIn).features = << <<"g">>, <<"h">> >>
    /\ <<"x">> \in OptionalEntryNames /\ <<"y">> \in OptionalEntryNames
    /\ ParsedDependencies = << <<"m">>, <<"x">> >>

(***************************************************************************)
(* cargo.rs: get_rust_files and CargoResolver::resolve, over a model of    *)
(* the working directories and of the two actions of the Context           *)
(***************************************************************************)

\* A directory entry: a file, a symbolic link, or a directory with its own
\* entries (in read_dir order).
File(name) == [name |-> name, kind |-> "file", children |-> <<>>]
Symlink(name) == [name |-> name, kind |-> "symlink", children |-> <<>>]
Dir(name, children) == [name |-> name, kind |-> "dir", children |-> children]

\* Path::extension of a file name: what follows its last '.', unless there
\* is none or the only one is the first character.
extension(name) ==
    LET dots == {i \in 1..Len(name) : name[i] = "."}
        final == CHOOSE i \in dots : \A j \in dots : j <= i
    IN  IF dots = {} \/ final = 1 THEN None ELSE Some(SubSeq(name, final + 1, Len(name)))

\* get_rust_files on the entries of the directory at path: the paths
\* pushed to out, in order.
RECURSIVE get_rust_files(_, _)
get_rust_files(path, entries) ==
    IF entries = <<>> THEN <<>>
    ELSE LET entry == Head(entries)
             entry_path == Append(path, entry.name)
         IN  (IF entry.kind = "symlink" THEN <<>>
              ELSE (IF entry.kind = "dir"
                    THEN get_rust_files(entry_path, entry.children) ELSE <<>>)
                   \o (IF extension(entry.name) = Some(<<"r", "s">>)
                       THEN <<entry_path>> ELSE <<>>))
             \o get_rust_files(path, Tail(entries))

StrLibRs == <<"l", "i", "b", ".", "r", "s">>
StrSrc == <<"s", "r", "c">>
StrCrate == <<"c", "r", "a", "t", "e">>

\* The content of an unpacked crate: its src directory and its Cargo.toml.
CrateTree(src, manifest) == [src |-> src, manifest |-> manifest]
\* The crate directory right after create_dir_all: nothing in it.
EmptyCrateDir == CrateTree(None, None)

\* The crates of the registry, by name and version: what the archive of
\* each unpacks to.
\*   a 1: src/lib.rs, src/m/n.rs, a link and a text file; one mandatory
\*        dependency, two optional ones that the features f and g enable.
\*   b 2: src/lib.rs; one mandatory dependency.
ManifestA ==
    TTable(<<
        Entry(StrDependencies, TTable(<<
            Entry(<<"m">>, TString(<<"1">>)),
            Entry(<<"x">>, TTable(<<Entry(StrVersion, TString(<<"1">>)),
                                    Entry(StrOptional, TBoolean(TRUE))>>)),
            Entry(<<"y">>, TTable(<<Entry(StrVersion, TString(<<"1">>)),
                                    Entry(StrOptional, TBoolean(TRUE))>>))>>)),
        Entry(StrFeatures, TTable(<<
            Entry(<<"f">>, TArray(<<TString(StrDepColon \o <<"x">>)>>)),
            Entry(<<"g">>, TArray(<<TString(<<"y">>), TString(<<"f">>)>>))>>))>>)

ManifestB ==
    TTable(<<Entry(StrDependencies, TTable(<<Entry(<<"m">>, TString(<<"2">>))>>))>>)

Registry ==
    [k \in {<<<<"a">>, <<"1">>>>, <<<<"b">>, <<"2">>>>} |->
        IF k[1] = <<"a">>
        THEN CrateTree(Some(<<File(StrLibRs),
                              Dir(<<"m">>, <<File(<<"n", ".", "r", "s">>)>>),
                              Symlink(<<"l", ".", "r", "s">>),
                              File(<<"t", ".", "t", "x", "t">>)>>),
                       Some(ManifestA))
        ELSE CrateTree(Some(<<File(StrLibRs)>>), Some(ManifestB))]

\* The names a manifest of the registry can make an optional dependency.
OptionalNames == {<<"x">>, <<"y">>}
Seeds == IterationOrders(OptionalNames)

\* The targets resolve is called for: two locked crates, a crate without a
\* lockfile entry, and a target of another scheme.
TargetA == StrCargoScheme \o <<"a">>
TargetB == StrCargoScheme \o <<"b">>
TargetN == StrCargoScheme \o <<"n">>
TargetX == <<"/", "/", "x">>
ResolveTargets == {TargetA, TargetB, TargetN, TargetX}

ResolveLockfile ==
    [t \in {TargetA, TargetB} |->
        IF t = TargetA THEN <<"1", ",", "f", ",", "g">> ELSE <<"2">>]

\* The Context resolve is called with: the root Context of a unix build,
\* narrowed to the target.
ResolveContext(target) ==
    with_target([ContextNew(<< <<"c">> >>, [k \in {TargetFamily} |-> StrUnix])
                    EXCEPT !.lockfile = ResolveLockfile],
                target)

\* A working directory that exists: its crate.tar (the crate archived in
\* it) and its crate directory (its content), each there or not.
WorkDir(tar, crate) == [tar |-> tar, crate |-> crate]

\* std::fs::create_dir_all(&workdir).ok()
create_workdir(fs, workdir) ==
    IF workdir \in DOMAIN fs THEN fs ELSE MapInsert(fs, workdir, WorkDir(None, None))

\* actions.download(url, dest): all or nothing; done, dest holds the archive
\* of the crate the URL names.
download(fs, workdir, crate_name, crate_version) ==
    [fs EXCEPT ![workdir].tar = Some(<<crate_name, crate_version>>)]

\* actions.run_process("tar", ["xzvf", tar_dest, "-C", dest, ..]): all or
\* nothing; done, dest holds what the archive unpacks to.
run_process_tar(fs, workdir) ==
    [fs EXCEPT ![workdir].crate = Some(Registry[Unwrap(fs[workdir].tar)])]

\* The name of PluginKind::RustLibrary.
RustLibraryKind == "rust_library"

\* What one resolve invocation does: the working directories it leaves,
\* whether it invoked download and run_process, and what it returned.
Outcome(fs, downloaded, unpacked, result) ==
    [files |-> fs, download |-> downloaded, unpack |-> unpacked, result |-> result]

\* Lines 213-241 of resolve: the unpacked crate is read and the Config
\* assembled.
resolve_config(context, dest, crate, features, seed) ==
    IF IsNone(crate.src) THEN Err("NotFound")
    ELSE LET rust_files == get_rust_files(Append(dest, StrSrc), Unwrap(crate.src))
             toml == parse_cargo_toml(context, crate.manifest, features, seed)
         IN  IF ~toml.ok THEN toml
             ELSE Ok([dependencies |->
                        [i \in 1..Len(toml.value.dependencies) |->
                            StrCargoScheme \o toml.value.dependencies[i]],
                      build_plugin |-> "@rust_plugin",
                      location |-> None,
                      sources |-> rust_files,
                      build_dependencies |-> <<"@rust_compiler">>,
                      kind |-> RustLibraryKind,
                      extras |-> [k \in {Features} |-> features],
                      hash |-> 1010])

\* CargoResolver::resolve.  download_ok and process_ok say whether the
\* action, if invoked, succeeds.
resolve(context, target, fs, download_ok, process_ok, seed) ==
    LET crate_name == strip_prefix(target, StrCargoScheme)
        lockstring == get_locked_version(context, target)
    IN  IF IsNone(crate_name) THEN Outcome(fs, FALSE, FALSE, Err("Other"))
        ELSE IF ~lockstring.ok THEN Outcome(fs, FALSE, FALSE, lockstring)
        ELSE
        LET locked == parse_lockstring(lockstring.value)
            workdir == working_directory(context).path
            fs1 == create_workdir(fs, workdir)
            downloads == IsNone(fs1[workdir].tar)
            fs2 == IF downloads
                   THEN download(fs1, workdir, Unwrap(crate_name), locked.version)
                   ELSE fs1
            dest == Append(workdir, StrCrate)
            unpacks == IsNone(fs2[workdir].crate)
            fs3 == IF unpacks THEN [fs2 EXCEPT ![workdir].crate = Some(EmptyCrateDir)] ELSE fs2
            fs4 == IF unpacks THEN run_process_tar(fs3, workdir) ELSE fs3
        IN  IF downloads /\ ~download_ok
            THEN Outcome(fs1, TRUE, FALSE, Err("DownloadFailed"))
            ELSE IF unpacks /\ ~process_ok
            THEN Outcome(fs3, downloads, TRUE, Err("ProcessFailed"))
            ELSE Outcome(fs4, downloads, unpacks,
                         resolve_config(context, dest, Unwrap(fs4[workdir].crate),
                                        locked.features, seed))

\* Bound of the resolve model: the number of resolve invocations.
MaxResolves == 3

InitResolve ==
    /\ files = EmptyMap
    /\ calls = 0
    /\ last = None
    /\ firstOk = [t \in ResolveTargets |-> None]
    /\ pending = [t \in ResolveTargets |-> "none"]
    /\ StatusIdle /\ TaskIdle /\ MergedIdle /\ DepsIdle /\ LogIdle /\ CtxIdle /\ RestIdle

\* The working directory of a target, and what is in it.
WorkDirOf(target) == working_directory(ResolveContext(target)).path
HasTar(fs, target) == WorkDirOf(target) \in DOMAIN fs /\ IsSome(fs[WorkDirOf(target)].tar)
HasCrate(fs, target) == WorkDirOf(target) \in DOMAIN fs /\ IsSome(fs[WorkDirOf(target)].crate)

\* The scheduler calls resolve for a target; the two actions succeed or
\* fail as the outside world has it.
Resolve(target, download_ok, process_ok, seed) ==
    /\ calls < MaxResolves
    /\ LET r == resolve(ResolveContext(target), target, files, download_ok, process_ok, seed)
       IN  /\ files' = r.files
           /\ last' = Some([target |-> target,
                            tar_before |-> HasTar(files, target),
                            crate_before |-> HasCrate(files, target),
                            workdir_before |-> WorkDirOf(target) \in DOMAIN files,
                            succeeded_before |-> firstOk[target],
                            pending_before |-> pending[target],
                            download_ok |-> download_ok,
                            process_ok |-> process_ok,
                            download |-> r.download,
                            unpack |-> r.unpack,
                            result |-> r.result])
           /\ firstOk' = IF r.result.ok /\ IsNone(firstOk[target])
                         THEN [firstOk EXCEPT ![target] = Some(r.result.value)]
                         ELSE firstOk
           /\ pending' = [pending EXCEPT ![target] =
                            IF r.result = Err("DownloadFailed") THEN "download"
                            ELSE IF r.result = Err("ProcessFailed") THEN "unpack"
                            ELSE IF r.result.ok THEN "none"
                            ELSE @]
    /\ calls' = calls + 1
    /\ UNCHANGED resolveOthers

NextResolve ==
    \E target \in ResolveTargets, download_ok \in BOOLEAN, process_ok \in BOOLEAN, seed \in Seeds :
        Resolve(target, download_ok, process_ok, seed)

SpecResolve == InitResolve /\ [][NextResolve]_vars

\* What a resolve of the target returns when nothing ever failed: a first
\* resolve, in an empty cache, with both actions succeeding.
FreshResults(target) ==
    {resolve(ResolveContext(target), target, EmptyMap, TRUE, TRUE, seed).result : seed \in Seeds}

\* C8: resolve invokes download only when crate.tar is absent and the
\* unpack only when the crate directory is absent; after a successful
\* resolve of a target, another resolve of it invokes neither and returns
\* the same Config.
C8_ResolveIdempotent ==
    IsSome(last) =>
        LET l == Unwrap(last)
        IN  /\ l.download => ~l.tar_before
            /\ l.unpack => ~l.crate_before
            /\ IsSome(l.succeeded_before) =>
                 /\ ~l.download
                 /\ ~l.unpack
                 /\ l.result = Ok(Unwrap(l.succeeded_before))

\* C9: after a resolve that failed because download or the unpack returned
\* an error, a resolve of the same target in which every action succeeds
\* redoes the failed step and returns Ok with the Config of a resolution
\* that never failed.
C9_RetryAfterFailure ==
    IsSome(last) =>
        LET l == Unwrap(last)
        IN  (l.pending_before # "none" /\ l.download_ok /\ l.process_ok) =>
                /\ l.pending_before = "download" => l.download
                /\ l.pending_before = "unpack" => l.unpack
                /\ l.result.ok
                /\ l.result \in FreshResults(l.target)

\* The lockfile resolve is called with has no entry for the target.
NotLocked(target) == target \notin DOMAIN ResolveContext(target).lockfile

\* What a resolve that stops at the lockfile leaves behind: nothing.  It
\* invoked neither action and the working directories are as they were;
\* none was created.
WorldUnchanged ==
    /\ ~Unwrap(last').download
    /\ ~Unwrap(last').unpack
    /\ files' = files
    /\ DOMAIN files' = DOMAIN files
    /\ WorkDirOf(Unwrap(last').target) \in DOMAIN files' => Unwrap(last').workdir_before

\* The step is a resolve of a target the lockfile has no entry for.
ResolveNotLocked == calls' = calls + 1 /\ IsSome(last') /\ NotLocked(Unwrap(last').target)

MaxReadErrors == 1

\* let mut buffer = [0; 1024]
BufferSize == 1024

\* The sentinels fed for a file that does not open and for a read that fails.
OpenErrorSentinel == <<18, 52>>

\* A mutation of the read sentinel: the one of a failed open.
ReadErrorSentinel_as_open == <<18, 52>>

ReadErrorSentinel == <<86, 120>>

\* The n low bytes of h, the most significant first.
RECURSIVE be_bytes(_, _)
be_bytes(h, n) ==
    IF n = 0 THEN <<>> ELSE Append(be_bytes(h \div 256, n - 1), h % 256)

\* u64::to_be_bytes: the eight bytes of a u64
to_be_bytes(h) == be_bytes(h, 8)

\* The digest of the bytes fed.  SHA-256 is replaced by a checksum small
\* enough to compute; all that is used of it is that the digest is a
\* function of the bytes fed, in their order.
RECURSIVE digest_of(_, _)
digest_of(fed, n) ==
    IF n = 0 THEN 1
    ELSE (digest_of(fed, n - 1) * 257 + fed[n] + 1) % 65521

digest(fed) == digest_of(fed, Len(fed))

\* u64::from_be_bytes(hasher.finalize()[..8])
finalize(hasher) == digest(hasher)

\* What is at a path: a regular file with its bytes, a directory (it opens,
\* and every read of it fails), or nothing that opens.
RegularFile(bytes) == [kind |-> "file", bytes |-> bytes]
Directory == [kind |-> "dir", bytes |-> <<>>]
Missing == [kind |-> "missing", bytes |-> <<>>]

\* The source tree the Configs name their sources in.
Paths == {"a.rs", "b.rs", "c.rs", "d.rs", "e.rs", "m.rs", "gen"}
HashFiles ==
    [p \in Paths |->
        CASE p = "a.rs" -> RegularFile(<<18, 52>>)
          [] p = "b.rs" -> RegularFile(<<18, 52>>)
          [] p = "c.rs" -> RegularFile(<<18>>)
          [] p = "d.rs" -> RegularFile(<<52>>)
          [] p = "e.rs" -> RegularFile(<<>>)
          [] p = "m.rs" -> Missing
          [] p = "gen" -> Directory]

\* The source lists of the Configs.
SourceLists ==
    {<<>>, <<"a.rs">>, <<"b.rs">>, <<"m.rs">>, <<"c.rs", "d.rs">>, <<"d.rs", "c.rs">>,
     <<"a.rs", "e.rs">>, <<"m.rs", "c.rs">>, <<"gen">>, <<"a.rs", "gen">>}

\* The Configs: each source list, with two settings of the other fields.
HashConfigs ==
    {[MkConfig(<<>>, "//x", <<>>) EXCEPT !.sources = srcs] : srcs \in SourceLists}
        \cup {[MkConfig(<<"//y">>, "//y", <<"//x">>) EXCEPT
                    !.sources = srcs, !.kind = "rust_library",
                    !.extras = [k \in {Features} |-> <<"f">>]] : srcs \in SourceLists}

\* (context_hash, deps_hash)
HashArgs == {[context_hash |-> c, deps_hash |-> d] : c, d \in {0, 258}}

\* A mutation of the final assignment: self.hash is left as it was.
store_nothing(c, hash) == c

\* self.hash = ...
store(c, hash) == [c EXCEPT !.hash = hash]

\* The file the for loop is at.
CurrentFile == HashFiles[Unwrap(hCfg).sources[hIdx]]

InitHash ==
    /\ hCfg \in {Some(c) : c \in HashConfigs}
    /\ hArgs \in {Some(a) : a \in HashArgs}
    /\ hPc = "idle" /\ hIdx = 0 /\ hPos = 0
    /\ hHasher = <<>> /\ hErrs = 0 /\ hOut = None /\ hFirst = None
    /\ CoreIdle /\ TreeIdle /\ ParseIdle /\ BuildIdle

\* Lines 113-115: the digest is created and fed the two hashes.
HashBegin ==
    /\ hPc = "idle"
    /\ hHasher' = to_be_bytes(Unwrap(hArgs).context_hash) \o to_be_bytes(Unwrap(hArgs).deps_hash)
    /\ hIdx' = 1
    /\ hPc' = "open"
    /\ UNCHANGED <<hCfg, hArgs, hPos, hErrs, hOut, hFirst, hashOthers>>

\* Lines 116-126: File::open(src) for the next source.
HashOpen ==
    /\ hPc = "open"
    /\ hIdx <= Len(Unwrap(hCfg).sources)
    /\ IF CurrentFile.kind = "missing"
       THEN /\ hHasher' = hHasher \o OpenErrorSentinel
            /\ hIdx' = hIdx + 1
            /\ UNCHANGED <<hPc, hPos>>
       ELSE /\ hPc' = "read"
            /\ hPos' = 0
            /\ UNCHANGED <<hHasher, hIdx>>
    /\ UNCHANGED <<hCfg, hArgs, hErrs, hOut, hFirst, hashOthers>>

\* Lines 128-138: r.read(&mut buffer) returns Ok(count): count = 0 at the
\* end of the file; otherwise any number of the bytes left that fit into
\* the buffer.
HashRead(count) ==
    /\ hPc = "read"
    /\ CurrentFile.kind = "file"
    /\ LET left == Len(CurrentFile.bytes) - hPos
       IN  IF left = 0
           THEN /\ count = 0
                /\ hIdx' = hIdx + 1
                /\ hPc' = "open"
                /\ UNCHANGED <<hHasher, hPos>>
           ELSE /\ count >= 1 /\ count <= left /\ count <= BufferSize
                /\ hHasher' = hHasher \o SubSeq(CurrentFile.bytes, hPos + 1, hPos + count)
                /\ hPos' = hPos + count
                /\ UNCHANGED <<hIdx, hPc>>
    /\ UNCHANGED <<hCfg, hArgs, hErrs, hOut, hFirst, hashOthers>>

\* Lines 128-133: r.read(&mut buffer) returns Err: always for a directory,
\* now and then for a file (an interrupted read).  `continue` is the next
\* iteration of the inner loop.
HashReadError ==
    /\ hPc = "read"
    /\ hErrs < MaxReadErrors
    /\ hHasher' = hHasher \o ReadErrorSentinel
    /\ hErrs' = hErrs + 1
    /\ UNCHANGED <<hCfg, hArgs, hPc, hIdx, hPos, hOut, hFirst, hashOthers>>

\* Lines 141-147: after the last source the hash is stored and returned.
HashReturn ==
    /\ hPc = "open"
    /\ hIdx > Len(Unwrap(hCfg).sources)
    /\ hCfg' = Some(store(Unwrap(hCfg), finalize(hHasher)))
    /\ hOut' = Some(Unwrap(hCfg').hash)
    /\ hPc' = "done"
    /\ UNCHANGED <<hArgs, hIdx, hPos, hHasher, hErrs, hFirst, hashOthers>>

\* What a call that returned was given and did.
HashSummary ==
    [context_hash |-> Unwrap(hArgs).context_hash,
     deps_hash |-> Unwrap(hArgs).deps_hash,
     files |-> [i \in 1..Len(Unwrap(hCfg).sources) |-> HashFiles[Unwrap(hCfg).sources[i]]],
     errors |-> hErrs,
     fed |-> hHasher,
     hash |-> Unwrap(hOut)]

\* calculate_hash is called once more, on this or another Config.
HashAgain(c, a) ==
    /\ hPc = "done"
    /\ hFirst = None
    /\ hFirst' = Some(HashSummary)
    /\ hCfg' = Some(c)
    /\ hArgs' = Some(a)
    /\ hPc' = "idle" /\ hIdx' = 0 /\ hPos' = 0
    /\ hHasher' = <<>> /\ hErrs' = 0 /\ hOut' = None
    /\ UNCHANGED hashOthers

HashReadOk == \E count \in 0..2 : HashRead(count)
HashSecondCall == \E c \in HashConfigs, a \in HashArgs : HashAgain(c, a)

NextHash ==
    HashBegin \/ HashOpen \/ HashReadOk \/ HashReadError \/ HashReturn \/ HashSecondCall

SpecHash == InitHash /\ [][NextHash]_vars

\* One call of calculate_hash with the scheduling of its steps: the thread
\* that runs it goes on whenever it can.
NextHashOnce == HashBegin \/ HashOpen \/ HashReadOk \/ HashReadError \/ HashReturn

SpecHashLive == InitHash /\ [][NextHashOnce]_vars /\ WF_vars(NextHashOnce)

\* The call that has just returned and the one before it.
BothReturned == IsSome(hFirst) /\ hPc = "done"

\* The result is stored in self.hash and returned.
StoredAndReturned ==
    hPc = "done" =>
        /\ Unwrap(hCfg).hash = finalize(hHasher)
        /\ hOut = Some(Unwrap(hCfg).hash)

\* The two calls had the same context hash, the same dependency hash and
\* sources of the same contents in the same order.
SameInputs(f, g) ==
    /\ f.context_hash = g.context_hash
    /\ f.deps_hash = g.deps_hash
    /\ f.files = g.files

RECURSIVE AllBytes(_)
AllBytes(fs) == IF fs = <<>> THEN <<>> ELSE Head(fs).bytes \o AllBytes(Tail(fs))

\* The source lists differ in one place only, where x has a source that
\* does not open and y one that is read.
UnopenableForReadable(x, y) ==
    /\ Len(x) = Len(y)
    /\ \E i \in 1..Len(x) :
          /\ x[i].kind = "missing"
          /\ y[i].kind = "file"
          /\ \A j \in 1..Len(x) : j # i => x[j] = y[j]

\* The source lists are two ways to split the same bytes into files.
DistinctSplits(x, y) ==
    /\ Len(x) = Len(y)
    /\ \A i \in 1..Len(x) : x[i].kind = "file" /\ y[i].kind = "file"
    /\ x # y
    /\ AllBytes(x) = AllBytes(y)

\* C16: with the same context_hash and deps_hash, the bytes fed to the
\* digest when a source does not open differ from those fed when that
\* source is read, whatever its content, the other sources being the same;
\* and so do the bytes fed for two splits of the same bytes into files.
C16_MarkerDistinguishable ==
    BothReturned =>
        LET f == Unwrap(hFirst)
            g == HashSummary
        IN  (/\ f.context_hash = g.context_hash
             /\ f.deps_hash = g.deps_hash
             /\ f.errors = 0 /\ g.errors = 0
             /\ \/ UnopenableForReadable(f.files, g.files)
                \/ UnopenableForReadable(g.files, f.files)
                \/ DistinctSplits(f.files, g.files))
            => f.fed # g.fed

\* No source is one whose reads fail for ever.
ReadsFailFinitely ==
    \A i \in 1..Len(Unwrap(hCfg).sources) :
        HashFiles[Unwrap(hCfg).sources[i]].kind # "dir"

\* The steps of the two error branches, and of a source whose reads fail
\* for ever.
ErrorSteps ==
    /\ (hPc = "open" /\ hIdx <= Len(Unwrap(hCfg).sources) /\ CurrentFile.kind = "missing")
          => /\ hHasher' = hHasher \o <<18, 52>>
             /\ hIdx' = hIdx + 1
             /\ hPc' = "open"
    /\ hErrs' = hErrs + 1
          => /\ hHasher' = hHasher \o <<86, 120>>
             /\ hIdx' = hIdx /\ hPos' = hPos /\ hPc' = "read"
    /\ (hPc = "read" /\ CurrentFile.kind = "dir")
          => /\ hPc' = "read" /\ hIdx' = hIdx /\ hPos' = hPos
             /\ hErrs' = hErrs + 1

\* C18: calculate_hash returns whenever the reads of every source fail only
\* finitely often; a failed open feeds 0x12 0x34 once and goes on to the
\* next source; a failed read feeds 0x56 0x78 and the same read is tried
\* again, at the same place; at a source whose reads always fail nothing
\* but that happens, and calculate_hash does not return.
C18_ReturnsUnlessReadsFailForever ==
    /\ [][ErrorSteps]_vars
    /\ (hPc = "idle" /\ ReadsFailFinitely) ~> (hPc = "done")
    /\ [](hPc = "done" => ReadsFailFinitely)

\* C18 witness: calculate_hash returned after a failed open of the first
\* source and a failed read of the second.
C18_Witness ==
    /\ hPc = "done"
    /\ Unwrap(hCfg).sources = <<"m.rs", "c.rs">>
    /\ hErrs >= 1
    /\ hHasher = to_be_bytes(Unwrap(hArgs).context_hash) \o to_be_bytes(Unwrap(hArgs).deps_hash)
                    \o <<18, 52, 86, 120, 18>>

====
